---- MODULE Spec2Model ----
(***************************************************************************)
(* A model of the notebook cs146-3.1-pcw-Hai.ipynb: the two functions of   *)
(* the normal-inverse-gamma distribution (norminvgamma_pdf and             *)
(* norminvgamma_rvs) and the Task 3 cell that computes the posterior       *)
(* hyperparameters.                                                        *)
(*                                                                         *)
(* Numbers.  A float is modelled as a record [k, p, q]: k = "fin" is the   *)
(* rational p/q in lowest terms with q > 0, k = "nan" is NaN and k = "inf" *)
(* is +infinity (p = 1) or -infinity (p = -1).  +, -, * and / are exact on *)
(* the rationals and follow IEEE 754 on NaN, the infinities and division   *)
(* by zero (numpy warns and carries on, it does not raise).  The rationals *)
(* are not closed under the square root, so np.sqrt is rounded down to a   *)
(* multiple of 1/SqrtDen.                                                  *)
(***************************************************************************)
EXTENDS Integers, Sequences, FiniteSets, TLC

VARIABLES prior, cell, data, post, size, rng, ret, raised, pdf,
          list_of_results, curves, list_samples, list_of_means,
          list_of_variance, interval, first

\* the names of the Task 1 and Task 2 cells
task1 == <<list_of_results, curves>>

task2 == <<list_samples, list_of_means, list_of_variance, interval>>

vars == <<prior, cell, data, post, size, rng, ret, raised, pdf, task1, task2, first>>

----------------------------------------------------------------------------
(* Bounds *)

MaxLen == 3

MaxSize == 2

SqrtDen == 12

MaxSamples == 2

MaxLenB == 2

GridPoints == 3

----------------------------------------------------------------------------
(* Floats *)

Abs(i) == IF i < 0 THEN -i ELSE i

RECURSIVE GCD(_, _)
GCD(a, b) == IF b = 0 THEN Abs(a) ELSE GCD(b, a % b)

Q(p, q) ==
    LET g == GCD(Abs(p), Abs(q))
        s == IF q < 0 THEN -1 ELSE 1
    IN  [k |-> "fin", p |-> (s * p) \div g, q |-> (s * q) \div g]

I(i) == [k |-> "fin", p |-> i, q |-> 1]

NaN == [k |-> "nan", p |-> 0, q |-> 1]

Inf(s) == [k |-> "inf", p |-> s, q |-> 1]

Unset == [k |-> "unset", p |-> 0, q |-> 1]

Sign(a) == IF a.p > 0 THEN 1 ELSE IF a.p < 0 THEN -1 ELSE 0

IsFin(a) == a.k = "fin"

Neg(a) == [a EXCEPT !.p = -a.p]

Add(a, b) ==
    IF a.k = "nan" \/ b.k = "nan" THEN NaN
    ELSE IF a.k = "inf" /\ b.k = "inf" THEN (IF a.p = b.p THEN a ELSE NaN)
    ELSE IF a.k = "inf" THEN a
    ELSE IF b.k = "inf" THEN b
    ELSE LET g == GCD(a.q, b.q)
         IN  Q(a.p * (b.q \div g) + b.p * (a.q \div g), a.q * (b.q \div g))

Sub(a, b) == Add(a, Neg(b))

Mul(a, b) ==
    IF a.k = "nan" \/ b.k = "nan" THEN NaN
    ELSE IF a.k = "inf" \/ b.k = "inf"
         THEN (IF Sign(a) * Sign(b) = 0 THEN NaN ELSE Inf(Sign(a) * Sign(b)))
    ELSE LET g1 == GCD(Abs(a.p), b.q)
             g2 == GCD(Abs(b.p), a.q)
         IN  Q((a.p \div g1) * (b.p \div g2), (a.q \div g2) * (b.q \div g1))

Div(a, b) ==
    IF a.k = "nan" \/ b.k = "nan" THEN NaN
    ELSE IF b.k = "inf" THEN (IF a.k = "inf" THEN NaN ELSE I(0))
    ELSE IF b.p = 0 THEN (IF Sign(a) = 0 THEN NaN ELSE Inf(Sign(a)))
    ELSE IF a.k = "inf" THEN Inf(Sign(a) * Sign(b))
    ELSE Mul(a, Q(b.q, b.p))

Pow2(a) == Mul(a, a)

\* a < b, a <= b: comparisons with NaN are false
Lt(a, b) ==
    IF a.k = "nan" \/ b.k = "nan" THEN FALSE
    ELSE IF a.k = "inf" THEN a.p < 0 /\ ~(b.k = "inf" /\ b.p < 0)
    ELSE IF b.k = "inf" THEN b.p > 0
    ELSE a.p * b.q < b.p * a.q

Le(a, b) == a.k # "nan" /\ b.k # "nan" /\ ~Lt(b, a)

\* the largest s in lo..hi with s * s <= m
RECURSIVE ISqrt(_, _, _)
ISqrt(m, lo, hi) ==
    IF lo >= hi THEN lo
    ELSE LET mid == (lo + hi + 1) \div 2
         IN  IF mid * mid <= m THEN ISqrt(m, mid, hi) ELSE ISqrt(m, lo, mid - 1)

\* np.sqrt: nan for a negative argument, rounded down to a multiple of 1/SqrtDen
np_sqrt(a) ==
    IF a.k = "nan" THEN NaN
    ELSE IF a.p < 0 THEN NaN
    ELSE IF a.k = "inf" THEN a
    ELSE LET m == (a.p * SqrtDen * SqrtDen) \div a.q
         IN  Q(ISqrt(m, 0, m), SqrtDen)

----------------------------------------------------------------------------
(* Inputs *)

ExamplePrior == [mu_0 |-> I(0), nu_0 |-> Q(54, 1000), alpha_0 |-> Q(112, 100), beta_0 |-> Q(4, 10)]

ExampleData == <<1, 2, 3, 4>>

MuVals == {I(0), I(-1), Q(3, 2)}

NuVals == {I(-2), I(0), Q(1, 2), I(2)}

AlphaVals == {I(0), I(1), Q(3, 2)}

BetaVals == {I(-1), I(0), Q(1, 2), I(1)}

PriorSet ==
    {ExamplePrior} \cup
    [mu_0 : MuVals, nu_0 : NuVals, alpha_0 : AlphaVals, beta_0 : BetaVals]

DataVals == {1, 4}

DataSet ==
    {ExampleData} \cup UNION {[1..len -> DataVals] : len \in 0..MaxLen}

NoPost ==
    [n |-> 0, d |-> Unset, sum |-> Unset, mu_post |-> Unset,
     nu_post |-> Unset, alpha_post |-> Unset, beta_post |-> Unset]

----------------------------------------------------------------------------
(* Task 3: the posterior update *)

RECURSIVE np_sum(_)
np_sum(a) == IF a = <<>> THEN I(0) ELSE Add(np_sum(SubSeq(a, 1, Len(a) - 1)), I(a[Len(a)]))

\* np.mean: the sum over the count; the mean of an empty array is 0.0/0 = nan
np_mean(a) == Div(np_sum(a), I(Len(a)))

\* the deviations summed without being squared
RECURSIVE SumLoop_unsquared(_, _)
SumLoop_unsquared(a, d) ==
    IF a = <<>> THEN I(0)
    ELSE Add(SumLoop_unsquared(SubSeq(a, 1, Len(a) - 1), d), Sub(I(a[Len(a)]), d))

\* sum = 0; for i in data: sum += (i - d)**2
RECURSIVE SumLoop(_, _)
SumLoop(a, d) ==
    IF a = <<>> THEN I(0)
    ELSE Add(SumLoop(SubSeq(a, 1, Len(a) - 1), d), Pow2(Sub(I(a[Len(a)]), d)))

\* the mean added once instead of n times
mu_post_once(pr, n, d) ==
    Div(Add(Mul(pr.nu_0, pr.mu_0), d), Add(pr.nu_0, I(n)))

\* the division binding tighter than the sum: (...)/nu_0 + n
mu_post_precedence(pr, n, d) ==
    Add(Div(Add(Mul(pr.nu_0, pr.mu_0), Mul(I(n), d)), pr.nu_0), I(n))

mu_post(pr, n, d) ==
    Div(Add(Mul(pr.nu_0, pr.mu_0), Mul(I(n), d)), Add(pr.nu_0, I(n)))

nu_post(pr, n) == Add(pr.nu_0, I(n))

\* n // 2 instead of n / 2
alpha_post_floordiv(pr, n) == Add(pr.alpha_0, I(n \div 2))

alpha_post(pr, n) == Add(pr.alpha_0, Div(I(n), I(2)))

\* the cross term divided by nu_0 + n alone
beta_post_halfdenominator(pr, n, d, sum) ==
    Add(Add(pr.beta_0, Mul(Q(1, 2), sum)),
        Div(Mul(Mul(I(n), pr.nu_0), Pow2(Sub(d, pr.mu_0))),
            Add(pr.nu_0, I(n))))

\* half the sum of squares subtracted instead of added
beta_post_minus(pr, n, d, sum) ==
    Add(Sub(pr.beta_0, Mul(Q(1, 2), sum)),
        Div(Mul(Mul(I(n), pr.nu_0), Pow2(Sub(d, pr.mu_0))),
            Add(Mul(I(2), pr.nu_0), Mul(I(2), I(n)))))

beta_post(pr, n, d, sum) ==
    Add(Add(pr.beta_0, Mul(Q(1, 2), sum)),
        Div(Mul(Mul(I(n), pr.nu_0), Pow2(Sub(d, pr.mu_0))),
            Add(Mul(I(2), pr.nu_0), Mul(I(2), I(n)))))

PosteriorUpdate(pr, a) ==
    LET n == Len(a)
        d == np_mean(a)
        sum == SumLoop(a, d)
    IN  [n |-> n, d |-> d, sum |-> sum,
         mu_post |-> mu_post(pr, n, d),
         nu_post |-> nu_post(pr, n),
         alpha_post |-> alpha_post(pr, n),
         beta_post |-> beta_post(pr, n, d, sum)]

Task3(a) ==
    /\ cell = "start"
    /\ cell' = "task3"
    /\ data' = a
    /\ post' = PosteriorUpdate(prior, a)
    /\ raised' = "none"
    /\ UNCHANGED <<prior, size, rng, ret, pdf, task1, task2, first>>

----------------------------------------------------------------------------
(* The random source and scipy's rvs *)

\* values the random source can give for a standard inverse-gamma variate
YVals == {Q(1, 2), I(2)}

\* values the random source can give for a standard normal variate
ZVals == {I(-1), I(0), I(2)}

SizeVals == -1..MaxSize

Draws(n, S) == [1..(IF n < 0 THEN 0 ELSE n) -> S]

Draw(dist, a, loc, scale, std) ==
    [dist |-> dist, a |-> a, loc |-> loc, scale |-> scale, std |-> std,
     val |-> Add(Mul(std, scale), loc)]

\* rv_generic.rvs: the arguments are checked first; a scale that is zero
\* everywhere returns loc without drawing; otherwise one standard variate per
\* element is drawn and returned as variate * scale + loc.  scale is a
\* sequence of n values (a scalar scale is the same value n times).
scipy_rvs(dist, a, loc, scale, argcheck, n, stds) ==
    IF ~(argcheck /\ \A i \in DOMAIN scale : Le(I(0), scale[i]))
    THEN [raised |-> "DomainError", vals |-> <<>>, drawn |-> <<>>]
    ELSE IF n < 0
    THEN [raised |-> "NegativeDimensions", vals |-> <<>>, drawn |-> <<>>]
    ELSE IF \A i \in DOMAIN scale : scale[i] = I(0)
    THEN [raised |-> "none", vals |-> [i \in 1..n |-> loc], drawn |-> <<>>]
    ELSE LET drawn == [i \in 1..n |-> Draw(dist, a, loc, scale[i], stds[i])]
         IN  [raised |-> "none", vals |-> [i \in 1..n |-> drawn[i].val],
              drawn |-> drawn]

Scalar(v, n) == [i \in 1..(IF n < 0 THEN 1 ELSE n) |-> v]

\* sts.invgamma.rvs(a=alpha, scale=beta, size=size): the shape a must be positive
invgamma_rvs(a, scale, n, ys) ==
    scipy_rvs("invgamma", a, I(0), Scalar(scale, IF n = 0 THEN 1 ELSE n),
              Lt(I(0), a), n, ys)

\* sts.norm.rvs(loc=mu, scale=..., size=size): no shape parameter
norm_rvs(loc, scale, n, zs) ==
    scipy_rvs("norm", I(0), loc, scale, TRUE, n, zs)

\* the two arrays stacked in the other order
np_vstack_swapped(rows) == <<rows[2], rows[1]>>

np_vstack(rows) == rows

\* the transposition left out
transpose_omitted(m) == m

transpose(m) ==
    IF m = <<>> THEN <<>>
    ELSE [i \in 1..Len(m[1]) |-> [j \in 1..Len(m) |-> m[j][i]]]

----------------------------------------------------------------------------
(* norminvgamma_rvs *)

\* the variance of the first row used for every row
rvs_scale_firstrow(sigma2, nu) == [i \in DOMAIN sigma2 |-> np_sqrt(Div(sigma2[1], nu))]

rvs_scale(sigma2, nu) == [i \in DOMAIN sigma2 |-> np_sqrt(Div(sigma2[i], nu))]

norminvgamma_rvs(mu, nu, alpha, beta, n, ys, zs) ==
    LET s == invgamma_rvs(alpha, beta, n, ys)
        sigma2 == s.vals
        x == norm_rvs(mu, rvs_scale(sigma2, nu), n, zs)
    IN  IF s.raised # "none"
        THEN [raised |-> s.raised, ret |-> <<>>, drawn |-> <<>>]
        ELSE IF x.raised # "none"
        THEN [raised |-> x.raised, ret |-> <<>>, drawn |-> s.drawn]
        ELSE [raised |-> "none",
              ret |-> transpose(np_vstack(<<x.vals, sigma2>>)),
              drawn |-> s.drawn \o x.drawn]

Rvs(n, ys, zs) ==
    /\ cell = "start"
    /\ cell' = "rvs"
    /\ size' = n
    /\ LET r == norminvgamma_rvs(prior.mu_0, prior.nu_0, prior.alpha_0,
                                 prior.beta_0, n, ys, zs)
       IN  /\ raised' = r.raised
           /\ ret' = r.ret
           /\ rng' = rng \o r.drawn
    /\ UNCHANGED <<prior, data, post, pdf, task1, task2, first>>

----------------------------------------------------------------------------
(* norminvgamma_pdf *)

XVals == {I(-1), I(0), Q(3, 2)}

Sigma2Vals == {I(-1), I(0), Q(1, 2), I(2)}

\* rv_continuous.pdf: nan for invalid arguments (a scale that is not positive
\* included), 0 outside the support, a positive density inside it.  The
\* density is kept as the distribution and the point it was evaluated for,
\* with the sign of its value.
scipy_pdf(dist, x, a, loc, scale, argcheck, support) ==
    [dist |-> dist, x |-> x, a |-> a, loc |-> loc, scale |-> scale,
     sign |-> IF ~(argcheck /\ Lt(I(0), scale)) \/ x.k = "nan" THEN "nan"
              ELSE IF ~support \/ scale.k = "inf" THEN "zero"
              ELSE "pos"]

\* sts.norm.pdf(x, loc=mu, scale=...): supported on the whole line
norm_pdf(x, loc, scale) == scipy_pdf("norm", x, I(0), loc, scale, TRUE, TRUE)

\* sts.invgamma.pdf(sigma2, a=alpha, scale=beta): supported on x > 0
invgamma_pdf(x, a, scale) ==
    scipy_pdf("invgamma", x, a, I(0), scale, Lt(I(0), a), Lt(I(0), x))

\* the product of two floats, by sign: nan * anything = nan
Times(f, g) ==
    [op |-> "*", left |-> f, right |-> g,
     sign |-> IF f.sign = "nan" \/ g.sign = "nan" THEN "nan"
              ELSE IF f.sign = "zero" \/ g.sign = "zero" THEN "zero"
              ELSE "pos"]

\* the variance passed where the standard deviation is expected
pdf_scale_variance(sigma2, nu) == Div(sigma2, nu)

pdf_scale(sigma2, nu) == np_sqrt(Div(sigma2, nu))

norminvgamma_pdf(x, sigma2, mu, nu, alpha, beta) ==
    Times(norm_pdf(x, mu, pdf_scale(sigma2, nu)),
          invgamma_pdf(sigma2, alpha, beta))

NoDensity ==
    [dist |-> "none", x |-> Unset, a |-> Unset, loc |-> Unset, scale |-> Unset,
     sign |-> "nan"]

NoPdf ==
    [x |-> Unset, sigma2 |-> Unset,
     value |-> [op |-> "none", left |-> NoDensity, right |-> NoDensity, sign |-> "nan"]]

Pdf(x, sigma2) ==
    /\ cell = "start"
    /\ cell' = "pdf"
    /\ pdf' = [x |-> x, sigma2 |-> sigma2,
               value |-> norminvgamma_pdf(x, sigma2, prior.mu_0, prior.nu_0,
                                          prior.alpha_0, prior.beta_0)]
    /\ raised' = "none"
    /\ UNCHANGED <<prior, data, post, size, rng, ret, task1, task2, first>>

----------------------------------------------------------------------------
(* The sampling loops of Task 1 and Task 2 *)

\* for i in range(count): list.append(norminvgamma_rvs(mu_0, nu_0, alpha_0,
\* beta_0, size=1)); an exception ends the loop and the cell.  ys[k] and zs[k]
\* are the variates the random source has for iteration k.
\* the list overwritten in every iteration instead of appended to
RECURSIVE SampleLoop_overwrite(_, _, _, _)
SampleLoop_overwrite(pr, count, ys, zs) ==
    IF count = 0 THEN [raised |-> "none", list |-> <<>>, drawn |-> <<>>]
    ELSE LET done == SampleLoop_overwrite(pr, count - 1, ys, zs)
             r == norminvgamma_rvs(pr.mu_0, pr.nu_0, pr.alpha_0, pr.beta_0, 1,
                                   <<ys[count]>>, <<zs[count]>>)
         IN  IF done.raised # "none" THEN done
             ELSE [raised |-> r.raised,
                   list |-> IF r.raised = "none" THEN <<r.ret>> ELSE done.list,
                   drawn |-> done.drawn \o r.drawn]

RECURSIVE SampleLoop(_, _, _, _)
SampleLoop(pr, count, ys, zs) ==
    IF count = 0 THEN [raised |-> "none", list |-> <<>>, drawn |-> <<>>]
    ELSE LET done == SampleLoop(pr, count - 1, ys, zs)
             r == norminvgamma_rvs(pr.mu_0, pr.nu_0, pr.alpha_0, pr.beta_0, 1,
                                   <<ys[count]>>, <<zs[count]>>)
         IN  IF done.raised # "none" THEN done
             ELSE [raised |-> r.raised,
                   list |-> IF r.raised = "none" THEN Append(done.list, r.ret)
                            ELSE done.list,
                   drawn |-> done.drawn \o r.drawn]

CountVals == 1..MaxSamples

----------------------------------------------------------------------------
(* Task 1: ten samples and their normal curves *)

Task1Sample(count, ys, zs) ==
    /\ cell = "start"
    /\ cell' = "task1_samples"
    /\ size' = 1
    /\ LET l == SampleLoop(prior, count, ys, zs)
       IN  /\ raised' = l.raised
           /\ list_of_results' = l.list
           /\ rng' = rng \o l.drawn
    /\ UNCHANGED <<prior, data, post, ret, pdf, curves, task2, first>>

\* np.linspace(start, stop, num): num evenly spaced points, both ends included
np_linspace(start, stop, num) ==
    [j \in 1..num |->
        Add(start, Mul(I(j - 1), Div(Sub(stop, start), I(num - 1))))]

\* for i in list_of_results: plt.plot(x, sts.norm.pdf(x, i[0][0], i[0][1]))
\* one curve per sample: the density at every point of x
plot_curves(x, results) ==
    [k \in DOMAIN results |->
        [j \in DOMAIN x |-> norm_pdf(x[j], results[k][1][1], results[k][1][2])]]

Task1Plot ==
    /\ cell = "task1_samples"
    /\ raised = "none"
    /\ cell' = "task1_plot"
    /\ curves' = plot_curves(np_linspace(I(-10), I(10), GridPoints), list_of_results)
    /\ UNCHANGED <<prior, data, post, size, rng, ret, raised, pdf,
                   list_of_results, task2, first>>

----------------------------------------------------------------------------
(* Task 2: the intervals *)

NoInterval ==
    [mean_025 |-> Unset, mean_975 |-> Unset,
     variance_025 |-> Unset, variance_975 |-> Unset]

Task2Sample(count, ys, zs) ==
    /\ cell = "start"
    /\ cell' = "task2_samples"
    /\ size' = 1
    /\ LET l == SampleLoop(prior, count, ys, zs)
       IN  /\ raised' = l.raised
           /\ list_samples' = l.list
           /\ rng' = rng \o l.drawn
    /\ UNCHANGED <<prior, data, post, ret, pdf, task1, list_of_means,
                   list_of_variance, interval, first>>

\* the means taken from the column of the variances
means_of_column1(samples) == [k \in DOMAIN samples |-> samples[k][1][2]]

\* for i in list_samples: list_of_means.append(i[0][0])
means_of(samples) == [k \in DOMAIN samples |-> samples[k][1][1]]

\* for i in list_samples: list_of_variance.append(i[0][1])
variances_of(samples) == [k \in DOMAIN samples |-> samples[k][1][2]]

Task2Extract ==
    /\ cell = "task2_samples"
    /\ raised = "none"
    /\ cell' = "task2_lists"
    /\ list_of_means' = means_of(list_samples)
    /\ list_of_variance' = variances_of(list_samples)
    /\ UNCHANGED <<prior, data, post, size, rng, ret, raised, pdf, task1,
                   list_samples, interval, first>>

\* a with v inserted before the first element greater than v
RECURSIVE Insert(_, _)
Insert(a, v) ==
    IF a = <<>> THEN <<v>>
    ELSE IF Lt(v, Head(a)) THEN <<v>> \o a
    ELSE <<Head(a)>> \o Insert(Tail(a), v)

RECURSIVE np_sort(_)
np_sort(a) == IF a = <<>> THEN <<>> ELSE Insert(np_sort(Tail(a)), Head(a))

\* np.percentile(a, q) with the default linear interpolation: the sorted
\* values at the two indices around q/100 * (n - 1), weighted by the distance
\* to each; nan when a holds a nan.  a is not empty.
np_percentile(a, q) ==
    IF \E k \in DOMAIN a : a[k].k = "nan" THEN NaN
    ELSE LET ap == np_sort(a)
             index == Mul(Div(q, I(100)), I(Len(a) - 1))
             below == index.p \div index.q
             above == IF below + 1 > Len(a) - 1 THEN Len(a) - 1 ELSE below + 1
             weight_above == Sub(index, I(below))
             weight_below == Sub(I(1), weight_above)
         IN  IF weight_above = I(0) THEN ap[below + 1]
             ELSE Add(Mul(ap[below + 1], weight_below),
                      Mul(ap[above + 1], weight_above))

Task2MeanInterval ==
    /\ cell = "task2_lists"
    /\ cell' = "task2_mean"
    /\ interval' = [interval EXCEPT
                      !.mean_025 = np_percentile(list_of_means, Q(25, 10)),
                      !.mean_975 = np_percentile(list_of_means, Q(975, 10))]
    /\ UNCHANGED <<prior, data, post, size, rng, ret, raised, pdf, task1,
                   list_samples, list_of_means, list_of_variance, first>>

Task2VarianceInterval ==
    /\ cell = "task2_mean"
    /\ cell' = "task2_variance"
    /\ interval' = [interval EXCEPT
                      !.variance_025 = np_percentile(list_of_variance, Q(25, 10)),
                      !.variance_975 = np_percentile(list_of_variance, Q(975, 10))]
    /\ UNCHANGED <<prior, data, post, size, rng, ret, raised, pdf, task1,
                   list_samples, list_of_means, list_of_variance, first>>

NoFirst == [prior |-> ExamplePrior, data |-> <<>>]

----------------------------------------------------------------------------
(* Task 3 run again on more data, with the posterior as the prior *)

DataSetB == UNION {[1..len -> DataVals] : len \in 0..MaxLenB}

AsPrior(po) ==
    [mu_0 |-> po.mu_post, nu_0 |-> po.nu_post,
     alpha_0 |-> po.alpha_post, beta_0 |-> po.beta_post]

Task3Again(b) ==
    /\ cell = "task3"
    /\ cell' = "task3_again"
    /\ first' = [prior |-> prior, data |-> data]
    /\ prior' = AsPrior(post)
    /\ data' = b
    /\ post' = PosteriorUpdate(AsPrior(post), b)
    /\ UNCHANGED <<size, rng, ret, raised, pdf, task1, task2>>

----------------------------------------------------------------------------

Init ==
    /\ prior \in PriorSet
    /\ cell = "start"
    /\ data = <<>>
    /\ post = NoPost
    /\ size = 0
    /\ rng = <<>>
    /\ ret = <<>>
    /\ raised = "none"
    /\ pdf = NoPdf
    /\ list_of_results = <<>>
    /\ curves = <<>>
    /\ list_samples = <<>>
    /\ list_of_means = <<>>
    /\ list_of_variance = <<>>
    /\ interval = NoInterval
    /\ first = NoFirst

Next ==
    \/ \E a \in DataSet : Task3(a)
    \/ \E n \in SizeVals : \E ys \in Draws(n, YVals), zs \in Draws(n, ZVals) :
          Rvs(n, ys, zs)
    \/ \E x \in XVals, sigma2 \in Sigma2Vals : Pdf(x, sigma2)
    \/ \E count \in CountVals : \E ys \in Draws(count, YVals), zs \in Draws(count, ZVals) :
          Task2Sample(count, ys, zs)
    \/ \E count \in CountVals : \E ys \in Draws(count, YVals), zs \in Draws(count, ZVals) :
          Task1Sample(count, ys, zs)
    \/ Task1Plot
    \/ \E b \in DataSetB : Task3Again(b)
    \/ Task2Extract
    \/ Task2MeanInterval
    \/ Task2VarianceInterval

Spec == Init /\ [][Next]_vars

----------------------------------------------------------------------------
(* Properties of the posterior update *)

RECURSIVE Total(_)
Total(a) == IF a = <<>> THEN 0 ELSE Head(a) + Total(Tail(a))

RECURSIVE TotalSq(_)
TotalSq(a) == IF a = <<>> THEN 0 ELSE Head(a) * Head(a) + TotalSq(Tail(a))

\* the arithmetic mean of a non-empty sequence
Mean(a) == Q(Total(a), Len(a))

\* the sum of the squared deviations from the mean: sum(a_i^2) - n * mean^2
SqDev(a) == Sub(I(TotalSq(a)), Mul(I(Len(a)), Pow2(Mean(a))))

\* round to four decimals, half up
Round4(a) == Q((2 * 10000 * a.p + a.q) \div (2 * a.q), 10000)

Updated == cell = "task3"

ValidNu0 == Lt(I(0), prior.nu_0)

\* C1: for a prior with nu_0 > 0 and non-empty data, mu_post * (nu_0 + n) is
\* nu_0 * mu_0 + n * mean(data), nu_post is nu_0 + n and alpha_post is
\* alpha_0 + n/2, where n is the number of data points.
C1_PosteriorMuNuAlpha ==
    (Updated /\ ValidNu0 /\ data # <<>>) =>
        LET n == I(Len(data))
        IN  /\ post.n = Len(data)
            /\ post.d = Mean(data)
            /\ Mul(post.mu_post, Add(prior.nu_0, n))
                 = Add(Mul(prior.nu_0, prior.mu_0), Mul(n, Mean(data)))
            /\ Sub(post.nu_post, prior.nu_0) = n
            /\ Mul(I(2), Sub(post.alpha_post, prior.alpha_0)) = n

C1_Witness ==
    /\ Updated /\ ValidNu0 /\ Len(data) = 3
    /\ prior.mu_0 # I(0) /\ post.mu_post # prior.mu_0

\* C2: for a prior with nu_0 > 0 and non-empty data, the beta_post of the code
\* equals beta_0 + sum((d_i - mean)^2)/2 + n*nu_0*(mean - mu_0)^2 / (2*(nu_0 + n))
\* and equals beta_0 + sum((d_i - mean)^2)/2 + (n*nu_0/(nu_0 + n)) * (mean - mu_0)^2 / 2.
C2_BetaPostForms ==
    (Updated /\ ValidNu0 /\ data # <<>>) =>
        LET n == I(Len(data))
            dev2 == Pow2(Sub(Mean(data), prior.mu_0))
            base == Add(prior.beta_0, Div(SqDev(data), I(2)))
            reference ==
                Add(base, Div(Mul(Mul(n, prior.nu_0), dev2),
                              Mul(I(2), Add(prior.nu_0, n))))
            notebook ==
                Add(base, Mul(Div(Mul(n, prior.nu_0), Add(prior.nu_0, n)),
                              Div(dev2, I(2))))
        IN  /\ post.beta_post = reference
            /\ post.beta_post = notebook

C2_Witness ==
    /\ Updated /\ ValidNu0 /\ Len(data) >= 2
    /\ SqDev(data) # I(0)
    /\ Mean(data) # prior.mu_0
    /\ Lt(Add(prior.beta_0, Div(SqDev(data), I(2))), post.beta_post)

\* C3: with the prior (0, 0.054, 1.12, 0.4) and the data [1, 2, 3, 4] the
\* update gives nu_post = 4.054 and alpha_post = 3.12, mu_post = 2.4667 and
\* beta_post = 3.0665 when rounded to four decimals.
C3_WorkedExample ==
    (Updated /\ prior = ExamplePrior /\ data = ExampleData) =>
        /\ post.nu_post = Q(4054, 1000)
        /\ post.alpha_post = Q(312, 100)
        /\ Round4(post.mu_post) = Q(24667, 10000)
        /\ Round4(post.beta_post) = Q(30665, 10000)

C3_Witness ==
    /\ Updated /\ prior = ExamplePrior /\ data = ExampleData
    /\ IsFin(post.mu_post) /\ IsFin(post.beta_post)

\* C7: with nu_0 > 0 and no data the update returns the prior unchanged.
C7_EmptyDataKeepsPrior ==
    (Updated /\ ValidNu0 /\ data = <<>>) =>
        /\ post.mu_post = prior.mu_0
        /\ post.nu_post = prior.nu_0
        /\ post.alpha_post = prior.alpha_0
        /\ post.beta_post = prior.beta_0

\* C9: with nu_0 <= 0 the update fails with a domain error and produces no
\* posterior hyperparameters, whatever the data.
C9_NonPositiveNu0Fails ==
    (Updated /\ ~ValidNu0) => (raised = "DomainError" /\ post = NoPost)

----------------------------------------------------------------------------
(* Properties of norminvgamma_rvs and norminvgamma_pdf *)

Positive(a) == Lt(I(0), a)

ValidHyper == Positive(prior.nu_0) /\ Positive(prior.alpha_0) /\ Positive(prior.beta_0)

Sampled == cell = "rvs"

IsNorm(dr) == dr.dist = "norm"

IsInvGamma(dr) == dr.dist = "invgamma"

\* the draws taken from the random source, in the order they were taken
NormDraws == SelectSeq(rng, IsNorm)

InvGammaDraws == SelectSeq(rng, IsInvGamma)

\* s is the square root of v, up to the rounding of np.sqrt
IsSqrtOf(s, v) ==
    /\ Le(I(0), s)
    /\ Le(Pow2(s), v)
    /\ Lt(v, Pow2(Add(s, Q(1, SqrtDen))))

\* C4: with nu, alpha, beta > 0 and size >= 1, the mean in row i is the i-th
\* normal draw, taken with location mu and with the standard deviation
\* sqrt(sigma2_i / nu) of the variance sigma2_i returned in the same row i.
C4_MeanUsesOwnVariance ==
    (Sampled /\ ValidHyper /\ size >= 1) =>
        /\ Len(NormDraws) = Len(ret)
        /\ \A i \in DOMAIN ret :
              /\ ret[i][1] = NormDraws[i].val
              /\ NormDraws[i].loc = prior.mu_0
              /\ IsSqrtOf(NormDraws[i].scale, Div(ret[i][2], prior.nu_0))

C4_Witness ==
    /\ Sampled /\ ValidHyper /\ size >= 2 /\ Len(ret) = size
    /\ ret[1][2] # ret[2][2]
    /\ NormDraws[1].scale # NormDraws[2].scale
    /\ ~IsSqrtOf(NormDraws[2].scale, Div(ret[1][2], prior.nu_0))

\* C5: with nu, alpha, beta > 0 and size >= 1 the call returns size rows of
\* two columns; row i holds the i-th mean drawn in column 0 and the i-th
\* variance drawn in column 1.
C5_ResultShape ==
    (Sampled /\ ValidHyper /\ size >= 1) =>
        /\ raised = "none"
        /\ Len(ret) = size
        /\ Len(NormDraws) = size
        /\ Len(InvGammaDraws) = size
        /\ \A i \in DOMAIN ret :
              /\ Len(ret[i]) = 2
              /\ ret[i][1] = NormDraws[i].val
              /\ ret[i][2] = InvGammaDraws[i].val

C5_Witness ==
    /\ Sampled /\ ValidHyper /\ size >= 2 /\ Len(ret) = size
    /\ ret[1] # ret[2]
    /\ ret[1][1] # ret[1][2]
    /\ ret[1][1] # ret[2][1]
    /\ ret[1][2] # ret[2][2]

\* C6: with nu, alpha, beta > 0 and size >= 1 every sigma2 in the second
\* column of the result is strictly positive.
C6_VariancesPositive ==
    (Sampled /\ ValidHyper /\ size >= 1) =>
        /\ ret # <<>>
        /\ \A i \in DOMAIN ret : Positive(ret[i][2])

C6_Witness ==
    /\ Sampled /\ ValidHyper /\ size >= 1 /\ Len(ret) = size
    /\ \E i \in DOMAIN ret : Lt(ret[i][1], I(0)) /\ Positive(ret[i][2])

\* C8: with nu <= 0, alpha <= 0, beta <= 0 or size < 1 the call fails with an
\* error (any error raised counts as the domain error) and returns nothing:
\* no empty result and no rows.
C8_InvalidInputFails ==
    (Sampled /\ (~ValidHyper \/ size < 1)) =>
        (raised # "none" /\ ret = <<>>)

Evaluated == cell = "pdf"

\* C10: with sigma2 > 0 and nu, alpha, beta > 0 the value of norminvgamma_pdf
\* is non-negative and is the product of the normal density at x with mean mu
\* and variance sigma2/nu and the inverse-gamma density at sigma2 with shape
\* alpha and scale beta.
C10_PdfIsProduct ==
    (Evaluated /\ ValidHyper /\ Positive(pdf.sigma2)) =>
        LET v == pdf.value
        IN  /\ v.sign \in {"zero", "pos"}
            /\ v.op = "*"
            /\ v.left.dist = "norm"
            /\ v.left.x = pdf.x
            /\ v.left.loc = prior.mu_0
            /\ IsSqrtOf(v.left.scale, Div(pdf.sigma2, prior.nu_0))
            /\ v.right.dist = "invgamma"
            /\ v.right.x = pdf.sigma2
            /\ v.right.a = prior.alpha_0
            /\ v.right.scale = prior.beta_0
            /\ v.right.loc = I(0)

C10_Witness ==
    /\ Evaluated /\ ValidHyper /\ Positive(pdf.sigma2)
    /\ pdf.value.sign = "pos"
    /\ Div(pdf.sigma2, prior.nu_0) # I(1)
    /\ pdf.x # prior.mu_0

----------------------------------------------------------------------------
(* Properties of Task 2 *)

Values(draws) == [k \in DOMAIN draws |-> draws[k].val]

RECURSIVE Least(_)
Least(a) ==
    IF Len(a) = 1 THEN a[1]
    ELSE LET m == Least(Tail(a)) IN IF Lt(a[1], m) THEN a[1] ELSE m

RECURSIVE Greatest(_)
Greatest(a) ==
    IF Len(a) = 1 THEN a[1]
    ELSE LET m == Greatest(Tail(a)) IN IF Lt(m, a[1]) THEN a[1] ELSE m

\* lo..hi is an interval inside the range of the values of a
WithinRange(lo, hi, a) == Le(Least(a), lo) /\ Le(lo, hi) /\ Le(hi, Greatest(a))

\* C11: in Task 2 list_of_means and list_of_variance hold one entry per drawn
\* pair, entry k being the mean and the variance of pair k; the two intervals
\* are the 2.5th and 97.5th percentiles of the means drawn and of the
\* variances drawn, and the lower bound of each is at most its upper bound.
C11_IntervalsOfOwnComponents ==
    (cell = "task2_variance" /\ ValidHyper) =>
        /\ Len(list_of_means) = Len(list_samples)
        /\ Len(list_of_variance) = Len(list_samples)
        /\ list_of_means = Values(NormDraws)
        /\ list_of_variance = Values(InvGammaDraws)
        /\ \A k \in DOMAIN list_samples :
              list_samples[k] = <<(<<list_of_means[k], list_of_variance[k]>>)>>
        /\ interval.mean_025 = np_percentile(Values(NormDraws), Q(5, 2))
        /\ interval.mean_975 = np_percentile(Values(NormDraws), Q(195, 2))
        /\ interval.variance_025 = np_percentile(Values(InvGammaDraws), Q(5, 2))
        /\ interval.variance_975 = np_percentile(Values(InvGammaDraws), Q(195, 2))
        /\ WithinRange(interval.mean_025, interval.mean_975, Values(NormDraws))
        /\ WithinRange(interval.variance_025, interval.variance_975,
                       Values(InvGammaDraws))

C11_Witness ==
    /\ cell = "task2_variance" /\ ValidHyper
    /\ Len(list_samples) >= 2
    /\ Lt(interval.mean_025, interval.mean_975)
    /\ Lt(interval.variance_025, interval.variance_975)
    /\ Lt(list_of_means[2], list_of_means[1])
    /\ list_of_means # list_of_variance

----------------------------------------------------------------------------
(* Properties of Task 1 and of the sampling loops *)

\* C14: every curve plotted in Task 1 is the normal density with the sample's
\* x as mean and the sample's sigma2 as variance: location x and standard
\* deviation sqrt(sigma2).
C14_CurveOfMeanAndVariance ==
    (cell = "task1_plot" /\ ValidHyper) =>
        /\ Len(curves) = Len(list_of_results)
        /\ \A k \in DOMAIN curves : \A j \in DOMAIN curves[k] :
              /\ curves[k][j].dist = "norm"
              /\ curves[k][j].loc = list_of_results[k][1][1]
              /\ IsSqrtOf(curves[k][j].scale, list_of_results[k][1][2])

\* the samples of the loop that was run, Task 1's or Task 2's
LoopList == list_of_results \o list_samples

Stds(draws) == [k \in DOMAIN draws |-> draws[k].std]

\* C15: n calls with size=1 and one call with size=n both give n pairs
\* (x, sigma2), each x drawn with the sigma2 of its own pair, from n
\* inverse-gamma and n normal draws; the loop gives the pairs the batch call
\* gives for the same variates.  The loop draws variance and mean in turn,
\* the batch call all variances before any mean.
C15_LoopEqualsBatch ==
    /\ (LoopList # <<>> /\ ValidHyper) =>
          LET n == Len(LoopList)
              batch == norminvgamma_rvs(prior.mu_0, prior.nu_0, prior.alpha_0,
                                        prior.beta_0, n, Stds(InvGammaDraws),
                                        Stds(NormDraws))
          IN  /\ raised = "none"
              /\ Len(rng) = 2 * n
              /\ Len(InvGammaDraws) = n
              /\ Len(NormDraws) = n
              /\ \A k \in 1..n :
                    /\ rng[2 * k - 1].dist = "invgamma"
                    /\ rng[2 * k].dist = "norm"
                    /\ LoopList[k] = <<(<<rng[2 * k].val, rng[2 * k - 1].val>>)>>
                    /\ IsSqrtOf(rng[2 * k].scale, Div(LoopList[k][1][2], prior.nu_0))
              /\ batch.raised = "none"
              /\ batch.ret = [k \in 1..n |-> LoopList[k][1]]
    /\ (Sampled /\ ValidHyper /\ size >= 1) =>
          /\ Len(ret) = size
          /\ Len(rng) = 2 * size
          /\ \A k \in 1..size :
                /\ rng[k].dist = "invgamma"
                /\ rng[size + k].dist = "norm"
                /\ ret[k] = <<rng[size + k].val, rng[k].val>>
                /\ IsSqrtOf(rng[size + k].scale, Div(ret[k][2], prior.nu_0))

C15_Witness ==
    /\ LoopList # <<>> /\ ValidHyper
    /\ Len(LoopList) >= 2
    /\ LoopList[1] # LoopList[2]
    /\ rng[1].val # rng[3].val
    /\ rng[2].scale # rng[4].scale

----------------------------------------------------------------------------
(* Algebraic properties of the posterior update *)

\* C16: for a prior with nu_0 > 0 and non-empty data A and B, updating with A
\* and then updating the result with B gives the same (mu, nu, alpha, beta)
\* as one update with A followed by B.
C16_UpdateComposes ==
    (/\ cell = "task3_again"
     /\ Positive(first.prior.nu_0)
     /\ first.data # <<>>
     /\ data # <<>>) =>
        LET whole == PosteriorUpdate(first.prior, first.data \o data)
        IN  /\ post.mu_post = whole.mu_post
            /\ post.nu_post = whole.nu_post
            /\ post.alpha_post = whole.alpha_post
            /\ post.beta_post = whole.beta_post

C16_Witness ==
    /\ cell = "task3_again"
    /\ Positive(first.prior.nu_0)
    /\ Len(first.data) >= 2 /\ Len(data) >= 2
    /\ Mean(first.data) # Mean(data)
    /\ SqDev(first.data) # I(0)
    /\ prior.mu_0 # first.prior.mu_0
    /\ post.mu_post # prior.mu_0
    /\ IsFin(post.beta_post) /\ post.beta_post # prior.beta_0

\* C17: for a prior with nu_0, alpha_0, beta_0 > 0 and non-empty data the
\* posterior has nu_post > nu_0, alpha_post > alpha_0 and
\* beta_post >= beta_0, so all three stay strictly positive.
C17_PosteriorStaysValid ==
    (Updated /\ ValidHyper /\ data # <<>>) =>
        /\ Lt(prior.nu_0, post.nu_post)
        /\ Lt(prior.alpha_0, post.alpha_post)
        /\ Le(prior.beta_0, post.beta_post)
        /\ Positive(post.nu_post)
        /\ Positive(post.alpha_post)
        /\ Positive(post.beta_post)
        /\ IsFin(post.mu_post)

C17_Witness ==
    /\ Updated /\ ValidHyper /\ Len(data) >= 2
    /\ SqDev(data) # I(0)
    /\ Lt(prior.beta_0, post.beta_post)

Smaller(a, b) == IF Lt(a, b) THEN a ELSE b

Larger(a, b) == IF Lt(a, b) THEN b ELSE a

\* C18: for a prior with nu_0 > 0 and non-empty data, mu_post lies between
\* mu_0 and the mean of the data, and equals mu_0 only when the mean does.
C18_MuPostBetween ==
    (Updated /\ ValidNu0 /\ data # <<>>) =>
        /\ Le(Smaller(prior.mu_0, Mean(data)), post.mu_post)
        /\ Le(post.mu_post, Larger(prior.mu_0, Mean(data)))
        /\ (post.mu_post = prior.mu_0 => Mean(data) = prior.mu_0)

C18_Witness ==
    /\ Updated /\ ValidNu0 /\ data # <<>>
    /\ Lt(prior.mu_0, post.mu_post)
    /\ Lt(post.mu_post, Mean(data))

====
